---- MODULE Spec2Model ----
(***************************************************************************)
(* Recipe Genie backend (src/main.py): the search orchestrator             *)
(* (direct name search, translate-and-retry, ingredient filter with        *)
(* per-candidate enrichment), the passthrough endpoints and the favorites  *)
(* endpoints, as a server that handles one request at a time.  Every       *)
(* external HTTP call and every store call is one step whose outcome is    *)
(* chosen by the environment.                                              *)
(*                                                                         *)
(* Text is a sequence of character codes (32 = " ", 65 = "A", 97 = "a",    *)
(* 98 = "b"), so that str.lower() and str.strip() are computed.            *)
(***************************************************************************)
EXTENDS Integers, Sequences, FiniteSets, TLC

VARIABLES
    pc,          \* position of the handler: "idle", a call site, or "done"
    req,         \* the request being handled
    meals,       \* search_recipes: local `meals`
    q_en,        \* search_recipes: local `q_en`
    ingredient,  \* search_recipes: local `ingredient`
    cands,       \* _mealdb_filter_by_ingredient: `meals[:12]`
    idx,         \* _mealdb_filter_by_ingredient: position of the for loop
    full_meals,  \* _mealdb_filter_by_ingredient: local `full_meals`
    filtered,    \* history: the candidate list the filter API returned
    looked,      \* history: per capped candidate, "skipped" | "failed" | "ok"
    trace,       \* history: the external calls issued for this request
    last,        \* history: the most recent external call and how it ended
    resp,        \* the response sent to the client
    store,       \* the "recipefavorite" collection
    posted,      \* history: the request bodies whose documents were stored
    nextId       \* the store's next document id

vars == <<pc, req, meals, q_en, ingredient, cands, idx, full_meals, filtered,
          looked, trace, last, resp, store, posted, nextId>>

----------------------------------------------------------------------------
(* Bounds of the model *)

\* longest candidate list the filter API returns
MaxCandidates == 13
\* most enrichment lookups of one search that do not yield a meal
MaxFaults == 2
\* most documents the favorites collection holds
MaxFavs == 1

(* Program constants *)

\* `meals[:12]`
LookupCap == 12
\* `limit: int = 50`
DefaultLimit == 50

----------------------------------------------------------------------------
(* Text *)

EmptyText == <<>>

IsSpace(c) == c = 32

\* str.lower() on one character
LowerChar(c) == IF c >= 65 /\ c <= 90 THEN c + 32 ELSE c

\* str.lower()
Lower(s) == [i \in 1..Len(s) |-> LowerChar(s[i])]

RECURSIVE LStrip(_)
LStrip(s) == IF s # <<>> /\ IsSpace(Head(s)) THEN LStrip(Tail(s)) ELSE s

RECURSIVE RStrip(_)
RStrip(s) ==
    IF s # <<>> /\ IsSpace(s[Len(s)]) THEN RStrip(SubSeq(s, 1, Len(s) - 1)) ELSE s

\* str.strip()
Strip(s) == RStrip(LStrip(s))

\* str(n) for a natural number: its decimal digits
RECURSIVE ToStr(_)
ToStr(n) == IF n < 10 THEN <<48 + n>> ELSE ToStr(n \div 10) \o <<48 + (n % 10)>>

\* the queries a client sends: "" and "Ab"
Queries == { <<>>, <<65, 98>> }

----------------------------------------------------------------------------
(* The recipe API (TheMealDB) as the environment.  A call ends with a      *)
(* network error (net # "ok") or with an HTTP response: a status, and a    *)
(* body that is JSON or not; a JSON body holds "meals": null or a list.    *)

\* a full meal record; opaque but for its id
Meal(id) == [idMeal |-> id, full |-> TRUE]

\* a light-weight candidate of filter.php; idMeal 0 stands for a missing id
Candidate(id) == [idMeal |-> id, full |-> FALSE]

HttpOutcome(net, status, json, null, ms) ==
    [net |-> net, status |-> status, json |-> json, null |-> null, meals |-> ms]

\* the outcomes of a call that yields no body the code can read
FailedOutcomes ==
    { HttpOutcome("ConnectionError", 0, FALSE, TRUE, <<>>),
      HttpOutcome("Timeout", 0, FALSE, TRUE, <<>>),
      HttpOutcome("ok", 500, TRUE, TRUE, <<>>),
      HttpOutcome("ok", 200, FALSE, TRUE, <<>>) }

\* search.php: {"meals": null}, {"meals": []}, or one or two meals
SearchOutcomes ==
    FailedOutcomes \cup
    { HttpOutcome("ok", 200, TRUE, TRUE, <<>>) } \cup
    { HttpOutcome("ok", 200, TRUE, FALSE, ms) :
          ms \in { <<>>, <<Meal(1)>>, <<Meal(2), Meal(1)>> } }

\* a filter.php answer of n candidates with distinct ids
CandidateList(n) == [i \in 1..n |-> Candidate(i)]

\* a filter.php answer whose 3rd candidate repeats the 1st and whose 4th has no id
OddCandidates == <<Candidate(1), Candidate(2), Candidate(1), Candidate(0), Candidate(3)>>

\* filter.php: {"meals": null} or a list of up to MaxCandidates candidates
FilterOutcomes ==
    FailedOutcomes \cup
    { HttpOutcome("ok", 200, TRUE, TRUE, <<>>),
      HttpOutcome("ok", 200, TRUE, FALSE, OddCandidates) } \cup
    { HttpOutcome("ok", 200, TRUE, FALSE, CandidateList(n)) : n \in 0..MaxCandidates }

\* lookup.php?i=mid: {"meals": null} or the meal
LookupOutcomes(mid) ==
    FailedOutcomes \cup
    { HttpOutcome("ok", 200, TRUE, TRUE, <<>>),
      HttpOutcome("ok", 200, TRUE, FALSE, <<Meal(mid)>>) }

\* requests.get(...) raising, r.raise_for_status() raising, or r.json() raising
Raises(o) == o.net # "ok" \/ (o.status >= 400 /\ o.status < 600) \/ ~o.json

NoError == [exc |-> "none", status |-> 0]

\* the exception a failed call raises; str(e) is modelled by the record
ErrorOf(o) ==
    IF o.net # "ok" THEN [exc |-> o.net, status |-> 0]
    ELSE IF o.status >= 400 /\ o.status < 600 THEN [exc |-> "HTTPError", status |-> o.status]
    ELSE IF ~o.json THEN [exc |-> "JSONDecodeError", status |-> 0]
    ELSE NoError

\* a slip: the answer's list is dropped
MealsDropped(o) == <<>>

\* `data.get("meals") or []`
MealsOrEmpty(o) == IF o.null THEN <<>> ELSE o.meals

----------------------------------------------------------------------------
(* The translation API (LibreTranslate) as the environment.  A JSON body   *)
(* holds "translatedText": a string, null, or nothing.                     *)

TranslateOutcome(net, status, json, has, text) ==
    [net |-> net, status |-> status, json |-> json, has |-> has, text |-> text]

\* "", " ", " ab ", "b"
TranslatedTexts == { <<>>, <<32>>, <<32, 97, 98, 32>>, <<98>> }

TranslateOutcomes ==
    { TranslateOutcome("ConnectionError", 0, FALSE, "missing", <<>>),
      TranslateOutcome("Timeout", 0, FALSE, "missing", <<>>),
      TranslateOutcome("ok", 429, TRUE, "missing", <<>>),
      TranslateOutcome("ok", 500, FALSE, "missing", <<>>),
      TranslateOutcome("ok", 200, FALSE, "missing", <<>>),
      TranslateOutcome("ok", 200, TRUE, "missing", <<>>),
      TranslateOutcome("ok", 200, TRUE, "null", <<>>) } \cup
    { TranslateOutcome("ok", 200, TRUE, "str", t) : t \in TranslatedTexts }

\* the translation API did not answer 200 with a JSON body holding a string
TranslationFailed(o) == o.net # "ok" \/ o.status # 200 \/ ~o.json \/ o.has # "str"

\* `a or b` on strings
OrText(a, b) == IF a # EmptyText THEN a ELSE b

\* a slip: a failed translation yields "" instead of the original text
TranslateToEnOrEmpty(text, o) ==
    IF o.net # "ok" \/ o.status # 200 \/ ~o.json \/ o.has = "null" THEN EmptyText
    ELSE OrText(Strip(IF o.has = "str" THEN o.text ELSE EmptyText), text)

\* _translate_to_en(text), given how the call ends
TranslateToEn(text, o) ==
    IF o.net # "ok" THEN text
    ELSE IF o.status # 200 THEN text
    ELSE IF ~o.json THEN text
    ELSE IF o.has = "null" THEN text
    ELSE OrText(Strip(IF o.has = "str" THEN o.text ELSE EmptyText), text)

----------------------------------------------------------------------------
(* Requests, responses and the bookkeeping of calls *)

\* a JSON value that is a string or null (None)
Str(t) == [none |-> FALSE, s |-> t]

None == [none |-> TRUE, s |-> EmptyText]

\* a request without a JSON body
NoPayload == [title |-> None]

Request(endpoint, q, target, payload, limit) ==
    [endpoint |-> endpoint, q |-> q, target |-> target, payload |-> payload,
     limit |-> limit]

NoRequest == Request("none", EmptyText, "", NoPayload, 0)

NoResp == [status |-> 0, body |-> [none |-> TRUE]]

\* one external call: the operation, its argument, the call site, and the
\* number of items the code read from the answer
Call(op, arg, site, n) == [op |-> op, arg |-> arg, site |-> site, n |-> n]

\* how the most recent external call ended: whether the handler saw it fail,
\* the error the environment produced, and the list the answer held
Ended(op, failed, err, ret) == [op |-> op, failed |-> failed, err |-> err, ret |-> ret]

NoCall == Ended("none", FALSE, NoError, <<>>)

\* a slip: the count is that of the candidates considered, not of the meals
SearchResultMiscounted(ms) ==
    [status |-> 200, body |-> [count |-> Len(cands), meals |-> ms]]

\* `{"count": len(meals), "meals": meals}`
SearchResult(ms) == [status |-> 200, body |-> [count |-> Len(ms), meals |-> ms]]

\* HTTPException(status_code=status, detail=f"{prefix}{str(e)}")
HttpException(status, prefix, err) ==
    [status |-> status, body |-> [detail |-> [prefix |-> prefix, err |-> err]]]

\* a slip: the upstream failure is reported as a local one
SearchFailureLocal(err) == HttpException(500, "Recipe search failed: ", err)

\* the except clauses of search_recipes
SearchFailure(err) == HttpException(502, "Recipe search failed: ", err)

\* a slip: the candidate list is not capped
CapCandidatesUncapped(ms) == ms

\* `meals[:12]`
CapCandidates(ms) == SubSeq(ms, 1, IF Len(ms) < LookupCap THEN Len(ms) ELSE LookupCap)

\* a slip: the comparison is case-sensitive
ShouldRetryCaseSensitive(qen, q) == qen # EmptyText /\ qen # OrText(q, EmptyText)

\* `q_en and q_en.lower() != (q or "").lower()`
ShouldRetryTranslated(qen, q) == qen # EmptyText /\ Lower(qen) # Lower(OrText(q, EmptyText))

\* a lookup yields a meal: no exception, and `dj.get("meals")` is truthy
Yields(o) == ~Raises(o) /\ MealsOrEmpty(o) # <<>>

\* a slip: a meal already collected is not collected again
EnrichedDeduplicated(full, o) ==
    IF ~(~Raises(o) /\ MealsOrEmpty(o) # <<>>) THEN full
    ELSE IF \E i \in 1..Len(full) : full[i] = MealsOrEmpty(o)[1] THEN full
    ELSE Append(full, MealsOrEmpty(o)[1])

\* the body of the try block of the for loop: `full_meals.append(dj["meals"][0])`
\* when the lookup yields a meal, `continue` otherwise
Enriched(full, o) == IF Yields(o) THEN Append(full, MealsOrEmpty(o)[1]) ELSE full

RECURSIVE CountOf(_, _)
CountOf(seq, x) ==
    IF seq = <<>> THEN 0
    ELSE (IF Head(seq) = x THEN 1 ELSE 0) + CountOf(Tail(seq), x)

\* a new request starts with fresh locals of search_recipes
ResetSearchLocals ==
    /\ meals' = <<>>
    /\ q_en' = EmptyText
    /\ ingredient' = EmptyText
    /\ cands' = <<>>
    /\ idx' = 0
    /\ full_meals' = <<>>
    /\ filtered' = <<>>
    /\ looked' = <<>>

ResetLocals ==
    /\ ResetSearchLocals
    /\ trace' = <<>>
    /\ last' = NoCall
    /\ resp' = NoResp

Idle == pc = "idle"

----------------------------------------------------------------------------
(* GET /api/recipes/search *)

StartSearch ==
    /\ Idle
    /\ \E q \in Queries : req' = Request("search", q, "", NoPayload, 0)
    /\ ResetLocals
    /\ pc' = "s1_search"
    /\ UNCHANGED <<store, posted, nextId>>

\* `meals = _mealdb_search_by_name(q)`
Stage1Search ==
    /\ pc = "s1_search"
    /\ \E o \in SearchOutcomes :
        /\ trace' = Append(trace, Call("searchByName", req.q, "s1_search",
                                       IF Raises(o) THEN 0 ELSE Len(MealsOrEmpty(o))))
        /\ last' = Ended("searchByName", Raises(o), ErrorOf(o), o.meals)
        /\ IF Raises(o)
           THEN /\ resp' = SearchFailure(ErrorOf(o))
                /\ pc' = "done"
                /\ UNCHANGED meals
           ELSE /\ meals' = MealsOrEmpty(o)
                /\ IF MealsOrEmpty(o) # <<>>
                   THEN resp' = SearchResult(MealsOrEmpty(o)) /\ pc' = "done"
                   ELSE resp' = resp /\ pc' = "s2_translate"
    /\ UNCHANGED <<req, q_en, ingredient, cands, idx, full_meals, filtered, looked,
                   store, posted, nextId>>

\* `q_en = _translate_to_en(q)` and the test that follows it
Stage2Translate ==
    /\ pc = "s2_translate"
    /\ \E o \in TranslateOutcomes :
        /\ trace' = Append(trace, Call("translate", req.q, "s2_translate", 0))
        /\ last' = Ended("translate", TranslationFailed(o), NoError, <<>>)
        /\ q_en' = TranslateToEn(req.q, o)
        /\ pc' = IF ShouldRetryTranslated(TranslateToEn(req.q, o), req.q)
                 THEN "s2_search" ELSE "s3_translate"
    /\ UNCHANGED <<req, meals, ingredient, cands, idx, full_meals, filtered, looked,
                   resp, store, posted, nextId>>

\* `meals = _mealdb_search_by_name(q_en)`
Stage2Search ==
    /\ pc = "s2_search"
    /\ \E o \in SearchOutcomes :
        /\ trace' = Append(trace, Call("searchByName", q_en, "s2_search",
                                       IF Raises(o) THEN 0 ELSE Len(MealsOrEmpty(o))))
        /\ last' = Ended("searchByName", Raises(o), ErrorOf(o), o.meals)
        /\ IF Raises(o)
           THEN /\ resp' = SearchFailure(ErrorOf(o))
                /\ pc' = "done"
                /\ UNCHANGED meals
           ELSE /\ meals' = MealsOrEmpty(o)
                /\ IF MealsOrEmpty(o) # <<>>
                   THEN resp' = SearchResult(MealsOrEmpty(o)) /\ pc' = "done"
                   ELSE resp' = resp /\ pc' = "s3_translate"
    /\ UNCHANGED <<req, q_en, ingredient, cands, idx, full_meals, filtered, looked,
                   store, posted, nextId>>

\* `ingredient = _translate_to_en(q)`
Stage3Translate ==
    /\ pc = "s3_translate"
    /\ \E o \in TranslateOutcomes :
        /\ trace' = Append(trace, Call("translate", req.q, "s3_translate", 0))
        /\ last' = Ended("translate", TranslationFailed(o), NoError, <<>>)
        /\ ingredient' = TranslateToEn(req.q, o)
    /\ pc' = "s3_filter"
    /\ UNCHANGED <<req, meals, q_en, cands, idx, full_meals, filtered, looked,
                   resp, store, posted, nextId>>

\* a slip: a failure of the filter call is swallowed like a lookup's
Stage3FilterAbsorbing ==
    /\ pc = "s3_filter"
    /\ \E o \in FilterOutcomes :
        /\ trace' = Append(trace, Call("filterByIngredient", ingredient, "s3_filter",
                                       IF Raises(o) THEN 0 ELSE Len(MealsOrEmpty(o))))
        /\ last' = Ended("filterByIngredient", Raises(o), ErrorOf(o), o.meals)
        /\ filtered' = (IF Raises(o) THEN <<>> ELSE MealsOrEmpty(o))
        /\ cands' = (IF Raises(o) THEN <<>> ELSE CapCandidates(MealsOrEmpty(o)))
        /\ idx' = 1
        /\ pc' = "s3_lookup"
        /\ resp' = resp
    /\ UNCHANGED <<req, meals, q_en, ingredient, full_meals, looked, store, posted, nextId>>

\* _mealdb_filter_by_ingredient, up to the for loop
Stage3Filter ==
    /\ pc = "s3_filter"
    /\ \E o \in FilterOutcomes :
        /\ trace' = Append(trace, Call("filterByIngredient", ingredient, "s3_filter",
                                       IF Raises(o) THEN 0 ELSE Len(MealsOrEmpty(o))))
        /\ last' = Ended("filterByIngredient", Raises(o), ErrorOf(o), o.meals)
        /\ IF Raises(o)
           THEN /\ resp' = SearchFailure(ErrorOf(o))
                /\ pc' = "done"
                /\ UNCHANGED <<cands, idx, filtered>>
           ELSE /\ filtered' = MealsOrEmpty(o)
                /\ cands' = CapCandidates(MealsOrEmpty(o))
                /\ idx' = 1
                /\ pc' = "s3_lookup"
                /\ resp' = resp
    /\ UNCHANGED <<req, meals, q_en, ingredient, full_meals, looked, store, posted, nextId>>

\* one iteration of `for m in meals[:12]`
Stage3Lookup ==
    /\ pc = "s3_lookup"
    /\ idx <= Len(cands)
    /\ IF cands[idx].idMeal = 0
       THEN \* `if not mid: continue`
            /\ looked' = Append(looked, "skipped")
            /\ UNCHANGED <<full_meals, trace, last>>
       ELSE \E o \in LookupOutcomes(cands[idx].idMeal) :
            /\ ~Yields(o) => CountOf(looked, "failed") < MaxFaults
            /\ trace' = Append(trace, Call("lookupById", <<cands[idx].idMeal>>, "s3_lookup",
                                           IF Yields(o) THEN 1 ELSE 0))
            /\ last' = Ended("lookupById", Raises(o), NoError, <<>>)
            /\ full_meals' = Enriched(full_meals, o)
            /\ looked' = Append(looked, IF Yields(o) THEN "ok" ELSE "failed")
    /\ idx' = idx + 1
    /\ UNCHANGED <<pc, req, meals, q_en, ingredient, cands, filtered, resp, store, posted, nextId>>

\* `return full_meals`, then `return {"count": len(meals), "meals": meals}`
Stage3Return ==
    /\ pc = "s3_lookup"
    /\ idx > Len(cands)
    /\ meals' = full_meals
    /\ resp' = SearchResult(full_meals)
    /\ pc' = "done"
    /\ UNCHANGED <<req, q_en, ingredient, cands, idx, full_meals, filtered, looked,
                   trace, last, store, posted, nextId>>

Search ==
    \/ StartSearch
    \/ Stage1Search
    \/ Stage2Translate
    \/ Stage2Search
    \/ Stage3Translate
    \/ Stage3Filter
    \/ Stage3Lookup
    \/ Stage3Return

----------------------------------------------------------------------------
(* GET /api/recipes/random and GET /api/recipes/{meal_id}: passthroughs *)

\* random.php and lookup.php: any JSON body is passed through
PassthroughOutcomes ==
    FailedOutcomes \cup
    { HttpOutcome("ok", 200, TRUE, TRUE, <<>>),
      HttpOutcome("ok", 200, TRUE, FALSE, <<Meal(1)>>) }

\* `return data` / `return r.json()`
Passthrough(o) == [status |-> 200, body |-> [null |-> o.null, meals |-> o.meals]]

\* random_recipe
RandomRecipe ==
    /\ Idle
    /\ req' = Request("random", EmptyText, "", NoPayload, 0)
    /\ ResetSearchLocals
    /\ \E o \in PassthroughOutcomes :
        /\ trace' = <<Call("random", EmptyText, "random", 0)>>
        /\ last' = Ended("random", Raises(o), ErrorOf(o), o.meals)
        /\ resp' = IF Raises(o)
                   THEN HttpException(502, "Random recipe failed: ", ErrorOf(o))
                   ELSE Passthrough(o)
    /\ pc' = "done"
    /\ UNCHANGED <<store, posted, nextId>>

\* the meal ids a client asks for: "1" and "2"
MealIds == { <<49>>, <<50>> }

\* get_recipe
GetRecipe ==
    /\ Idle
    /\ \E id \in MealIds :
        /\ req' = Request("recipe", id, "", NoPayload, 0)
        /\ trace' = <<Call("lookupById", id, "recipe", 0)>>
    /\ ResetSearchLocals
    /\ \E o \in PassthroughOutcomes :
        /\ last' = Ended("lookupById", Raises(o), ErrorOf(o), o.meals)
        /\ resp' = IF Raises(o)
                   THEN HttpException(502, "Recipe lookup failed: ", ErrorOf(o))
                   ELSE Passthrough(o)
    /\ pc' = "done"
    /\ UNCHANGED <<store, posted, nextId>>

----------------------------------------------------------------------------
(* GET /api/translate *)

Targets == {"es", "xx"}

\* `out.get("translatedText", "")`
TranslatedField(o) ==
    IF o.has = "str" THEN Str(o.text)
    ELSE IF o.has = "null" THEN None
    ELSE Str(EmptyText)

\* what goes wrong in a call of the translation API: a network error, an
\* answer that is not 200, or a body that is not JSON
TranslateError(o) ==
    IF o.net # "ok" THEN [exc |-> o.net, status |-> 0]
    ELSE IF o.status # 200 THEN [exc |-> "HTTPStatus", status |-> o.status]
    ELSE IF ~o.json THEN [exc |-> "JSONDecodeError", status |-> 0]
    ELSE NoError

\* a slip: every failure of the translation API is reported as a 502
TranslateResponseAlways502(o) ==
    IF o.net # "ok" \/ o.status # 200 \/ ~o.json
    THEN HttpException(502, "Translation service failed: ", TranslateError(o))
    ELSE [status |-> 200, body |-> [translated |-> TranslatedField(o)]]

\* the response of translate_text, given how the call ends
TranslateResponse(o) ==
    IF o.net # "ok"
    THEN HttpException(502, "Translation service failed: ", TranslateError(o))
    ELSE IF o.status # 200
    THEN HttpException(o.status, "Translation error: ", TranslateError(o))
    ELSE IF ~o.json
    THEN HttpException(502, "Translation service failed: ", TranslateError(o))
    ELSE [status |-> 200, body |-> [translated |-> TranslatedField(o)]]

\* translate_text
TranslateText ==
    /\ Idle
    /\ \E t \in Queries, target \in Targets :
        /\ req' = Request("translate", t, target, NoPayload, 0)
        /\ trace' = <<Call("translate", t, "translate", 0)>>
    /\ ResetSearchLocals
    /\ \E o \in TranslateOutcomes :
        /\ last' = Ended("translate", TranslateError(o) # NoError, TranslateError(o), <<>>)
        /\ resp' = TranslateResponse(o)
    /\ pc' = "done"
    /\ UNCHANGED <<store, posted, nextId>>

----------------------------------------------------------------------------
(* POST /api/favorites and GET /api/favorites *)

\* "52772" and "T"
MealIdText == <<53, 50, 55, 55, 50>>

TitleText == <<84>>

\* the JSON bodies a client posts
Payloads ==
    { [mealId |-> Str(MealIdText), title |-> Str(TitleText)],
      [meal_id |-> Str(MealIdText), title |-> Str(TitleText)],
      [meal_id |-> Str(MealIdText)],
      [meal_id |-> None, title |-> Str(TitleText)] }

\* the fields FavoriteRecipeIn declares, and those without a default
FavoriteFields == {"meal_id", "title", "thumbnail", "category", "area"}

RequiredFields == {"meal_id", "title"}

\* a slip: the id field is also accepted under the name mealId
ValidFavoriteAliased(p) ==
    /\ "title" \in DOMAIN p /\ ~p["title"].none
    /\ \/ "meal_id" \in DOMAIN p /\ ~p["meal_id"].none
       \/ "mealId" \in DOMAIN p /\ ~p["mealId"].none

\* request validation against FavoriteRecipeIn: every required field is
\* present under its declared name and is a string (fields not declared are
\* ignored)
ValidFavorite(p) == \A f \in RequiredFields : f \in DOMAIN p /\ ~p[f].none

\* payload.model_dump(): the declared fields, the omitted ones None
ModelDump(p) == [f \in FavoriteFields |-> IF f \in DOMAIN p THEN p[f] ELSE None]

\* create_document(collection, doc): the store assigns the id
CreateDocument(docs, id, doc) == Append(docs, [_id |-> id, doc |-> doc])

\* get_documents(collection, {}, limit): the first `limit` documents
GetDocuments(docs, limit) == SubSeq(docs, 1, IF Len(docs) < limit THEN Len(docs) ELSE limit)

\* `d["id"] = str(d.pop("_id"))` on one document
WithId(d) == [f \in FavoriteFields \cup {"id"} |->
                 IF f = "id" THEN Str(ToStr(d._id)) ELSE d.doc[f]]

\* how a store call ends
StoreOutcomes == {"ok", "error"}

StoreError == [exc |-> "StoreError", status |-> 0]

\* add_favorite, after request validation
AddFavorite ==
    /\ Idle
    /\ ResetSearchLocals
    /\ \E p \in Payloads :
        /\ req' = Request("add_favorite", EmptyText, "", p, 0)
        /\ IF ~ValidFavorite(p)
           THEN /\ resp' = [status |-> 422, body |-> [detail |-> "validation error"]]
                /\ trace' = <<>>
                /\ last' = NoCall
                /\ UNCHANGED <<store, posted, nextId>>
           ELSE \E o \in StoreOutcomes :
                /\ o = "ok" => Len(store) < MaxFavs
                /\ trace' = <<Call("create_document", EmptyText, "add_favorite", 0)>>
                /\ last' = Ended("create_document", o # "ok",
                                 IF o = "ok" THEN NoError ELSE StoreError, <<>>)
                /\ IF o = "ok"
                   THEN /\ store' = CreateDocument(store, nextId, ModelDump(p))
                        /\ posted' = Append(posted, p)
                        /\ nextId' = nextId + 1
                        /\ resp' = [status |-> 200,
                                    body |-> [ok |-> TRUE, id |-> ToStr(nextId)]]
                   ELSE /\ resp' = HttpException(500, "Failed to save favorite: ", StoreError)
                        /\ UNCHANGED <<store, posted, nextId>>
    /\ pc' = "done"

\* the limits a client asks for
Limits == {1, DefaultLimit}

\* list_favorites
ListFavorites ==
    /\ Idle
    /\ ResetSearchLocals
    /\ \E limit \in Limits :
        /\ req' = Request("list_favorites", EmptyText, "", NoPayload, limit)
        /\ \E o \in StoreOutcomes :
            /\ trace' = <<Call("get_documents", EmptyText, "list_favorites", 0)>>
            /\ last' = Ended("get_documents", o # "ok",
                             IF o = "ok" THEN NoError ELSE StoreError, <<>>)
            /\ resp' = IF o = "ok"
                       THEN [status |-> 200,
                             body |-> [items |->
                                 [i \in 1..Len(GetDocuments(store, limit)) |->
                                     WithId(GetDocuments(store, limit)[i])]]]
                       ELSE HttpException(500, "Failed to list favorites: ", StoreError)
    /\ pc' = "done"
    /\ UNCHANGED <<store, posted, nextId>>

Init ==
    /\ pc = "idle"
    /\ req = NoRequest
    /\ meals = <<>>
    /\ q_en = EmptyText
    /\ ingredient = EmptyText
    /\ cands = <<>>
    /\ idx = 0
    /\ full_meals = <<>>
    /\ filtered = <<>>
    /\ looked = <<>>
    /\ trace = <<>>
    /\ last = NoCall
    /\ resp = NoResp
    /\ store = <<>>
    /\ posted = <<>>
    /\ nextId = 1

\* the response is sent and the handler's frame is gone
Respond ==
    /\ pc = "done"
    /\ pc' = "idle"
    /\ req' = NoRequest
    /\ ResetLocals
    /\ UNCHANGED <<store, posted, nextId>>

Next ==
    \/ Search
    \/ RandomRecipe
    \/ GetRecipe
    \/ TranslateText
    \/ AddFavorite
    \/ ListFavorites
    \/ Respond

Spec == Init /\ [][Next]_vars

----------------------------------------------------------------------------
(* Properties of the search orchestrator *)

InSearch == req.endpoint = "search"

Done == pc = "done"

\* the calls of the trace issued at one call site
CallsAt(site) == SelectSeq(trace, LAMBDA c : c.site = site)

\* the operations of the calls issued so far
OpsCalled == {trace[i].op : i \in 1..Len(trace)}

\* the position of a call site in the fixed order of the stages
Rank(site) ==
    CASE site = "s1_search" -> 1
      [] site = "s2_translate" -> 2
      [] site = "s2_search" -> 3
      [] site = "s3_translate" -> 4
      [] site = "s3_filter" -> 5
      [] site = "s3_lookup" -> 6
      [] OTHER -> 0

\* C1: a name search (direct, or with the translated text) that returns one or
\* more meals ends the search: the response is exactly that list, and no call
\* of a later stage was issued -- after the direct search no call at all, after
\* the translated search (issued because the direct one was empty and the
\* translation differs from q beyond case) no filter and no lookup.
C1_FirstNonEmptyStageIsTerminal ==
    (InSearch /\ last.op = "searchByName" /\ last.err = NoError /\ last.ret # <<>>) =>
        /\ Done
        /\ resp.status = 200
        /\ resp.body.meals = last.ret
        /\ OpsCalled \cap {"filterByIngredient", "lookupById"} = {}
        /\ \/ /\ Len(trace) = 1
              /\ trace[1].site = "s1_search" /\ trace[1].arg = req.q
           \/ /\ Len(trace) = 3
              /\ trace[1].site = "s1_search" /\ trace[1].n = 0
              /\ trace[2].site = "s2_translate"
              /\ trace[3].site = "s2_search" /\ trace[3].arg = q_en
              /\ Lower(q_en) # Lower(req.q)

\* C1's case: the translated search returned meals and ended the search
C1_Witness ==
    /\ InSearch /\ Done /\ Len(trace) = 3
    /\ last.op = "searchByName" /\ Len(last.ret) = 2
    /\ resp.status = 200 /\ resp.body.meals = last.ret

\* C2: a translation call that fails inside search (network error, timeout,
\* non-200 answer, unreadable body) yields the original q and the pipeline goes
\* on without a response yet; and a search ends with an error only when a
\* recipe-API call (name search or filter) failed, never a translation.
C2_TranslationFailureAbsorbed ==
    /\ (InSearch /\ last.op = "translate" /\ last.failed) =>
          /\ resp = NoResp
          /\ \/ pc = "s3_translate" /\ q_en = req.q
             \/ pc = "s3_filter" /\ ingredient = req.q
    /\ (InSearch /\ Done /\ resp.status # 200) =>
          /\ last.op \in {"searchByName", "filterByIngredient"}
          /\ last.err # NoError

\* C2's case: the second translation failed and the filter is about to be
\* called with the untranslated, non-empty q
C2_Witness ==
    /\ InSearch /\ pc = "s3_filter" /\ last.op = "translate" /\ last.failed
    /\ req.q # EmptyText /\ ingredient = req.q

\* the ids of the candidates a lookup is issued for: those with an id
RECURSIVE IdsOf(_)
IdsOf(cs) ==
    IF cs = <<>> THEN <<>>
    ELSE (IF Head(cs).idMeal # 0 THEN <<Head(cs).idMeal>> ELSE <<>>) \o IdsOf(Tail(cs))

\* C3: a search issues at most 12 enrichment lookups, and they go, in filter
\* order, to the first 12 candidates the filter returned.
C3_AtMostTwelveLookups ==
    InSearch =>
        LET lookups == CallsAt("s3_lookup")
            first == IdsOf(SubSeq(filtered, 1, IF Len(filtered) < 12 THEN Len(filtered) ELSE 12))
        IN  /\ Len(lookups) <= 12
            /\ Len(lookups) <= Len(first)
            /\ \A i \in 1..Len(lookups) : lookups[i].arg = <<first[i]>>
            /\ (Done /\ resp.status = 200 /\ "filterByIngredient" \in OpsCalled)
                   => Len(lookups) = Len(first)

\* C3's case: the filter returned more than 12 candidates and 12 were looked up
C3_Witness ==
    /\ InSearch /\ Done /\ Len(filtered) > 12
    /\ Len(CallsAt("s3_lookup")) = 12

\* the meals of the candidates whose lookup yielded a meal, in candidate order
RECURSIVE EnrichedOf(_, _)
EnrichedOf(cs, outcomes) ==
    IF cs = <<>> \/ outcomes = <<>> THEN <<>>
    ELSE (IF Head(outcomes) = "ok" THEN <<Meal(Head(cs).idMeal)>> ELSE <<>>)
         \o EnrichedOf(Tail(cs), Tail(outcomes))

\* C4: when stage 3 returns, every one of the first (at most 12) candidates
\* was handled, and the meals returned are the full meals of exactly those
\* whose lookup yielded one, in candidate order, repeated ids included.
C4_EnrichmentKeepsSuccesses ==
    (InSearch /\ Done /\ resp.status = 200 /\ "filterByIngredient" \in OpsCalled) =>
        /\ Len(looked) = (IF Len(filtered) < 12 THEN Len(filtered) ELSE 12)
        /\ resp.body.meals = EnrichedOf(filtered, looked)
        /\ resp.body.count = CountOf(looked, "ok")

\* C4's case: more than 12 candidates, 2 of the 12 lookups failed, 10 meals
C4_Witness ==
    /\ InSearch /\ Done /\ Len(filtered) > 12
    /\ CountOf(looked, "failed") = 2
    /\ looked[12] = "ok" /\ looked[1] = "failed"
    /\ resp.status = 200 /\ resp.body.count = 10

\* C5: a failed name search (stage 1 or 2) ends the search with a 502 whose
\* detail carries the upstream error; the failed call is the last call issued
\* (no retry, no later stage).
C5_NameSearchFailureIsGatewayError ==
    (InSearch /\ last.op = "searchByName" /\ last.err # NoError) =>
        /\ Done
        /\ resp.status = 502
        /\ resp.body.detail = [prefix |-> "Recipe search failed: ", err |-> last.err]
        /\ trace[Len(trace)].op = "searchByName"
        /\ Len(CallsAt(trace[Len(trace)].site)) = 1
        /\ OpsCalled \cap {"filterByIngredient", "lookupById"} = {}
        /\ Len(trace) \in {1, 3}
        /\ Len(trace) = 1 => trace[1].site = "s1_search"
        /\ Len(trace) = 3 => /\ trace[1].site = "s1_search"
                             /\ trace[2].site = "s2_translate"
                             /\ trace[3].site = "s2_search"

\* C5's case: the translated name search failed with an HTTP error
C5_Witness ==
    /\ InSearch /\ Done /\ Len(trace) = 3
    /\ last.op = "searchByName" /\ last.err.exc = "HTTPError"
    /\ resp.status = 502

\* C6, as stated: every failure of an upstream call that ends a request is
\* reported with 502, and every store failure with 500.
C6_EveryUpstreamFailureIs502 ==
    (Done /\ last.err # NoError) =>
        IF req.endpoint \in {"add_favorite", "list_favorites"}
        THEN resp.status = 500
        ELSE resp.status = 502

\* C6, amended: as stated, except that on GET /api/translate an answer of the
\* translation API that is not 200 is reported with that answer's own status;
\* and a request that met no such failure ends with 200 (or 422, a rejected
\* body).
C6_FailureStatus ==
    /\ (Done /\ last.err # NoError) =>
          IF req.endpoint \in {"add_favorite", "list_favorites"}
          THEN resp.status = 500
          ELSE IF req.endpoint = "translate" /\ last.err.exc = "HTTPStatus"
          THEN resp.status = last.err.status /\ resp.status # 200
          ELSE resp.status = 502
    /\ (Done /\ last.err = NoError) => resp.status \in {200, 422}

\* C6's case: the translation API answered 429 on GET /api/translate
C6_Witness ==
    /\ Done /\ req.endpoint = "translate"
    /\ last.err = [exc |-> "HTTPStatus", status |-> 429]
    /\ resp.status = 429

\* C7, as stated: when the filter call of stage 3 fails (network error,
\* timeout or non-2xx answer), the search still returns a result.
C7_FilterFailureAbsorbed ==
    (InSearch /\ Done /\ last.op = "filterByIngredient"
              /\ last.err.exc \in {"ConnectionError", "Timeout", "HTTPError"}) =>
        resp.status = 200

\* C7, amended: a failed enrichment lookup or translation is absorbed, but a
\* failure of the filter call itself ends the search with a 502 carrying the
\* upstream error, after stages 1 and 2 yielded nothing and before any lookup.
C7_FilterFailureIsGatewayError ==
    /\ (InSearch /\ last.op = "filterByIngredient" /\ last.err # NoError) =>
          /\ Done
          /\ resp = [status |-> 502,
                     body |-> [detail |-> [prefix |-> "Recipe search failed: ",
                                           err |-> last.err]]]
          /\ \A i \in 1..Len(trace) : trace[i].n = 0
          /\ "lookupById" \notin OpsCalled
    /\ (InSearch /\ last.op \in {"lookupById", "translate"} /\ last.failed) =>
          resp.status \in {0, 200}

\* C7's case: both name searches came back empty and the filter call timed out
C7_Witness ==
    /\ InSearch /\ Done /\ Len(trace) = 5
    /\ last.op = "filterByIngredient" /\ last.err.exc = "Timeout"
    /\ resp.status = 502

----------------------------------------------------------------------------
(* Properties of the favorites endpoints *)

----------------------------------------------------------------------------
(* Properties of the search orchestrator, continued *)

\* C9: every search result has count = the number of its meals; and a search
\* whose every call returned nothing, without failing, answers {count: 0,
\* meals: []} with status 200.
C9_CountIsLength ==
    /\ (InSearch /\ Done /\ resp.status = 200) =>
          resp.body.count = Len(resp.body.meals)
    /\ (InSearch /\ Done /\ last.err = NoError /\ \A i \in 1..Len(trace) : trace[i].n = 0) =>
          resp = [status |-> 200, body |-> [count |-> 0, meals |-> <<>>]]

\* C9's case: no match, the translation is the query itself, so stage 2 is
\* skipped, and the filter returns nothing
C9_Witness ==
    /\ InSearch /\ Done /\ req.q # EmptyText /\ q_en = req.q
    /\ Len(trace) = 4
    /\ trace[2].site = "s2_translate" /\ trace[3].site = "s3_translate"
    /\ trace[4].site = "s3_filter" /\ last.err = NoError
    /\ resp.status = 200 /\ resp.body.count = 0 /\ resp.body.meals = <<>>

\* C10: the calls of one search follow the order of the stages: the direct
\* name search first, each call site but the lookup used at most once and
\* never after a later one; the translated search only after an empty direct
\* search and a translation that is non-empty and differs from q beyond case;
\* the filter only after name searches that returned nothing; at most 12
\* lookups, so at most 17 calls; and the enrichment loop only moves forward
\* through at most 12 candidates.
C10_StagesRunForward ==
    InSearch =>
        /\ pc # "s1_search" => Len(trace) >= 1
        /\ Len(trace) >= 1 => trace[1].site = "s1_search" /\ trace[1].arg = req.q
        /\ \A i \in 1..Len(trace) : Rank(trace[i].site) > 0
        /\ \A i \in 1..(Len(trace) - 1) :
              \/ Rank(trace[i].site) < Rank(trace[i + 1].site)
              \/ trace[i].site = "s3_lookup" /\ trace[i + 1].site = "s3_lookup"
        /\ \A i \in 1..Len(trace) : trace[i].site = "s2_search" =>
              /\ i = 3 /\ trace[1].n = 0 /\ trace[2].site = "s2_translate"
              /\ trace[i].arg # EmptyText
              /\ Lower(trace[i].arg) # Lower(req.q)
        /\ \A i \in 1..Len(trace) : trace[i].site = "s3_filter" =>
              \A j \in 1..(i - 1) : trace[j].n = 0
        /\ Len(CallsAt("s3_lookup")) <= 12
        /\ Len(trace) <= 17
        /\ pc = "s3_lookup" => idx = Len(looked) + 1 /\ idx <= Len(cands) + 1
        /\ Len(cands) <= 12

\* C10's case: a search that used every call site and all 12 lookups
C10_Witness ==
    /\ InSearch /\ Done /\ Len(trace) = 17
    /\ trace[3].site = "s2_search" /\ trace[5].site = "s3_filter"
    /\ trace[17].site = "s3_lookup"

====
